---- MODULE Spec2Model ----
(***************************************************************************)
(* Model of the Spot image publisher: the request builder                  *)
(* createImageRequest and the SpotImagePublisher pipeline (initialize and  *)
(* timerCallback) of spot_driver_cpp/src/images/spot_image_publisher.cpp.  *)
(***************************************************************************)
EXTENDS Integers, Sequences, FiniteSets, TLC

VARIABLES
    params,                  \* <<>> or <<parameter values read by the last initialize()>>
    paramServer,             \* <<values the parameter server holds>>, or <<>> where initialize() is handed them
    has_arm_,                \* SpotImagePublisher::has_arm_
    image_request_message_,  \* std::optional<GetImageRequest>: <<>> or <<request>>
    publishers,              \* sources for which the middleware holds a publisher
    setTimerCalls,           \* number of setTimer calls made so far
    pc,                      \* "Uninitialized", "Idle" or "Fetching"
    tickBy,                  \* who invoked the current / most recent tick
    getImagesCalls,          \* requests passed to getImages in the current / most recent tick
    response,                \* <<>> or <<what getImages returned in that tick>>
    logCalls,                \* messages passed to logError in that tick
    publishImagesCalls,      \* arguments of publishImages in that tick
    published,               \* per-channel publications made in that tick
    tfCalls,                 \* arguments of updateStaticTransforms in that tick
    middlewareCalls,         \* names of the publish and broadcast calls of that tick, in call order
    initResult,              \* <<>> or <<value returned by the last initialize()>>
    initRequest,             \* <<>> or <<request built by the last initialize()>>
    initCalls,               \* number of initialize() calls made so far
    prevFailed,              \* whether the tick before the current / most recent one failed to fetch
    timerDue,                \* whether a period of the timer has elapsed and its callback has not run yet
    running,                 \* number of timerCallback executions in progress
    rb                       \* request-builder harness: inputs and result of one createImageRequest call

pipeVars == <<params, paramServer, has_arm_, image_request_message_, publishers, setTimerCalls, pc,
              tickBy, getImagesCalls, response, logCalls, publishImagesCalls, published,
              tfCalls, middlewareCalls, initResult, initRequest, initCalls, prevFailed, timerDue, running>>

vars == <<params, paramServer, has_arm_, image_request_message_, publishers, setTimerCalls, pc,
          tickBy, getImagesCalls, response, logCalls, publishImagesCalls, published,
          tfCalls, middlewareCalls, initResult, initRequest, initCalls, prevFailed, timerDue, running, rb>>

-----------------------------------------------------------------------------
(* Bounds *)

NumBodyCameras == 1
MaxTransforms == 2
MaxInits == 2

-----------------------------------------------------------------------------
(* Program constants *)

kDefaultDepthImageQuality == 100

-----------------------------------------------------------------------------
(* Source catalog *)

AllBodyCameras == <<"BACK", "FRONTLEFT", "FRONTRIGHT", "LEFT", "RIGHT">>

BodyCameras == {AllBodyCameras[i] : i \in 1..NumBodyCameras}

Cameras == BodyCameras \cup {"HAND"}

SpotImageType == {"RGB", "DEPTH", "DEPTH_REGISTERED"}

ImageSource == [camera : Cameras, type : SpotImageType]

CameraRank(c) ==
    CASE c = "BACK" -> 1
      [] c = "FRONTLEFT" -> 2
      [] c = "FRONTRIGHT" -> 3
      [] c = "LEFT" -> 4
      [] c = "RIGHT" -> 5
      [] c = "HAND" -> 6

TypeRank(t) ==
    CASE t = "RGB" -> 1
      [] t = "DEPTH" -> 2
      [] t = "DEPTH_REGISTERED" -> 3

SourceLess(a, b) ==
    \/ CameraRank(a.camera) < CameraRank(b.camera)
    \/ /\ a.camera = b.camera
       /\ TypeRank(a.type) < TypeRank(b.type)

RECURSIVE Ascending(_)
Ascending(S) ==
    IF S = {} THEN <<>>
    ELSE LET m == CHOOSE a \in S : \A b \in S \ {a} : SourceLess(a, b)
         IN  <<m>> \o Ascending(S \ {m})

\* All sources in ascending order.
SourceOrder == Ascending(ImageSource)

\* The sources of S in the order in which a std::set<ImageSource> is iterated.
SortedSources(S) == SelectSeq(SourceOrder, LAMBDA s : s \in S)

CameraPrefix(c) ==
    CASE c = "BACK" -> "back"
      [] c = "FRONTLEFT" -> "frontleft"
      [] c = "FRONTRIGHT" -> "frontright"
      [] c = "LEFT" -> "left"
      [] c = "RIGHT" -> "right"
      [] c = "HAND" -> "hand"

SourceName(source) ==
    CASE source.type = "RGB" ->
           CameraPrefix(source.camera)
             \o (IF source.camera = "HAND" THEN "_color_image" ELSE "_fisheye_image")
      [] source.type = "DEPTH" ->
           CameraPrefix(source.camera) \o "_depth"
      [] source.type = "DEPTH_REGISTERED" ->
           CameraPrefix(source.camera)
             \o (IF source.camera = "HAND" THEN "_depth_in_hand_color_frame"
                                            ELSE "_depth_in_visual_frame")

WireNames == [s \in ImageSource |-> SourceName(s)]

toSpotImageSourceName(source) == WireNames[source]

createImageSources(get_rgb_images, get_depth_images, get_depth_registered_images, has_hand_camera) ==
    LET cams == IF has_hand_camera THEN Cameras ELSE BodyCameras
    IN  {s \in ImageSource :
            /\ s.camera \in cams
            /\ \/ s.type = "RGB" /\ get_rgb_images
               \/ s.type = "DEPTH" /\ get_depth_images
               \/ s.type = "DEPTH_REGISTERED" /\ get_depth_registered_images}

-----------------------------------------------------------------------------
(* Request builder *)

\* Variant: the DEPTH branch takes the quality of the RGB branch.
ImageRequestFor_DepthRgbQuality(source, rgb_image_quality, get_raw_rgb_images) ==
    LET source_name == toSpotImageSourceName(source)
    IN  IF source.type = "RGB" THEN
            [image_source_name |-> source_name,
             quality_percent   |-> rgb_image_quality,
             pixel_format      |-> "PIXEL_FORMAT_RGB_U8",
             image_format      |-> IF get_raw_rgb_images THEN "FORMAT_RAW" ELSE "FORMAT_JPEG"]
        ELSE IF source.type = "DEPTH" THEN
            [image_source_name |-> source_name,
             quality_percent   |-> rgb_image_quality,
             pixel_format      |-> "PIXEL_FORMAT_UNKNOWN",
             image_format      |-> "FORMAT_RAW"]
        ELSE
            [image_source_name |-> source_name,
             quality_percent   |-> kDefaultDepthImageQuality,
             pixel_format      |-> "PIXEL_FORMAT_UNKNOWN",
             image_format      |-> "FORMAT_RAW"]

\* Variant: the raw / JPEG choice of the RGB branch is inverted.
ImageRequestFor_FormatSwapped(source, rgb_image_quality, get_raw_rgb_images) ==
    LET source_name == toSpotImageSourceName(source)
    IN  IF source.type = "RGB" THEN
            [image_source_name |-> source_name,
             quality_percent   |-> rgb_image_quality,
             pixel_format      |-> "PIXEL_FORMAT_RGB_U8",
             image_format      |-> IF get_raw_rgb_images THEN "FORMAT_JPEG" ELSE "FORMAT_RAW"]
        ELSE
            [image_source_name |-> source_name,
             quality_percent   |-> kDefaultDepthImageQuality,
             pixel_format      |-> "PIXEL_FORMAT_UNKNOWN",
             image_format      |-> "FORMAT_RAW"]

ImageRequestFor(source, rgb_image_quality, get_raw_rgb_images) ==
    LET source_name == toSpotImageSourceName(source)
    IN  IF source.type = "RGB" THEN
            [image_source_name |-> source_name,
             quality_percent   |-> rgb_image_quality,
             pixel_format      |-> "PIXEL_FORMAT_RGB_U8",
             image_format      |-> IF get_raw_rgb_images THEN "FORMAT_RAW" ELSE "FORMAT_JPEG"]
        ELSE IF source.type = "DEPTH" THEN
            [image_source_name |-> source_name,
             quality_percent   |-> kDefaultDepthImageQuality,
             pixel_format      |-> "PIXEL_FORMAT_UNKNOWN",
             image_format      |-> "FORMAT_RAW"]
        ELSE
            [image_source_name |-> source_name,
             quality_percent   |-> kDefaultDepthImageQuality,
             pixel_format      |-> "PIXEL_FORMAT_UNKNOWN",
             image_format      |-> "FORMAT_RAW"]

\* Variant: the final else branch adds no sub-request.
createImageRequest_NoDepthRegistered(sources, has_rgb_cameras, rgb_image_quality, get_raw_rgb_images) ==
    LET ordered == SortedSources({s \in sources : s.type # "DEPTH_REGISTERED"})
    IN  [i \in 1..Len(ordered) |->
            ImageRequestFor(ordered[i], rgb_image_quality, get_raw_rgb_images)]

\* Variant: color sources are requested only when the robot has RGB cameras.
createImageRequest_RgbNeedsCameras(sources, has_rgb_cameras, rgb_image_quality, get_raw_rgb_images) ==
    LET ordered == SortedSources({s \in sources : s.type = "RGB" => has_rgb_cameras})
    IN  [i \in 1..Len(ordered) |->
            ImageRequestFor(ordered[i], rgb_image_quality, get_raw_rgb_images)]

createImageRequest(sources, has_rgb_cameras, rgb_image_quality, get_raw_rgb_images) ==
    LET ordered == SortedSources(sources)
    IN  [i \in 1..Len(ordered) |->
            ImageRequestFor(ordered[i], rgb_image_quality, get_raw_rgb_images)]

-----------------------------------------------------------------------------
(* Collaborators of the pipeline *)

Qualities == {70, 100}

ParamValues ==
    [rgb_image_quality               : Qualities,
     publish_rgb_images              : BOOLEAN,
     publish_depth_images            : BOOLEAN,
     publish_depth_registered_images : BOOLEAN,
     has_rgb_cameras                 : BOOLEAN]

\* Names of the parameters initialize() reads.
ParamNames == {"rgb_image_quality", "publish_rgb_images", "publish_depth_images",
               "publish_depth_registered_images", "has_rgb_cameras"}

ErrorDetails == {"timeout", "rpc failed"}

Transforms == 1..MaxTransforms

\* Transform batches of a response: the first n transforms in ascending order,
\* and in descending order.
TransformSeqs ==
    {[i \in 1..n |-> i] : n \in 0..MaxTransforms} \cup {[i \in 1..n |-> n + 1 - i] : n \in 0..MaxTransforms}

\* The source a wire name stands for.
SourceOfName ==
    [name \in {WireNames[s] : s \in ImageSource} |->
        CHOOSE s \in ImageSource : WireNames[s] = name]

\* Sources named by the sub-requests of a request.
RequestedSources(request) ==
    {SourceOfName[request[i].image_source_name] : i \in 1..Len(request)}

\* What getImages can return for a request: an error with a diagnostic, or
\* images for some of the requested sources together with a transform sequence.
ImageClientResults(request) ==
    {[ok |-> FALSE, images |-> <<>>, transforms |-> <<>>, error |-> e] : e \in ErrorDetails}
    \cup
    {[ok |-> TRUE,
      images |-> [s \in S |-> [source |-> s, data |-> "pixels"]],
      transforms |-> T,
      error |-> ""] :
        S \in SUBSET RequestedSources(request), T \in TransformSeqs}

\* MiddlewareHandle::createPublishers: one publisher per source.
createPublishers(existing, sources) == existing \cup sources

\* MiddlewareHandle::publishImages: each image goes to the channel of its source.
publishImages(images) ==
    LET ordered == SortedSources(DOMAIN images)
    IN  [i \in 1..Len(ordered) |-> [channel |-> ordered[i], image |-> images[ordered[i]]]]

-----------------------------------------------------------------------------
(* The publish pipeline *)

NoRb == [sources |-> {}, has_rgb_cameras |-> FALSE, rgb_image_quality |-> 100,
         get_raw_rgb_images |-> FALSE, request |-> <<>>]

\* State after SpotImagePublisher's constructor.
Init ==
    /\ params = <<>>
    /\ paramServer = <<>>
    /\ has_arm_ \in BOOLEAN
    /\ image_request_message_ = <<>>
    /\ publishers = {}
    /\ setTimerCalls = 0
    /\ pc = "Uninitialized"
    /\ tickBy = "none"
    /\ getImagesCalls = <<>>
    /\ response = <<>>
    /\ logCalls = <<>>
    /\ publishImagesCalls = <<>>
    /\ published = <<>>
    /\ tfCalls = <<>>
    /\ middlewareCalls = <<>>
    /\ initResult = <<>>
    /\ initRequest = <<>>
    /\ initCalls = 0
    /\ prevFailed = FALSE
    /\ timerDue = FALSE
    /\ running = 0
    /\ rb = NoRb

\* No collaborator call recorded for the handler invocation that starts.
ClearRecordings ==
    /\ getImagesCalls' = <<>>
    /\ response' = <<>>
    /\ logCalls' = <<>>
    /\ publishImagesCalls' = <<>>
    /\ published' = <<>>
    /\ tfCalls' = <<>>
    /\ middlewareCalls' = <<>>

\* The request initialize() builds from the parameter values p.
RequestFor(p) ==
    createImageRequest(
        createImageSources(p.publish_rgb_images, p.publish_depth_images,
                           p.publish_depth_registered_images, has_arm_),
        p.has_rgb_cameras, p.rgb_image_quality, FALSE)

\* Variant: an empty request makes initialize() return false without a timer.
Initialize_FailsOnEmpty(p) ==
    /\ pc # "Fetching"
    /\ tickBy # "timer"
    /\ initCalls < MaxInits
    /\ params' = <<p>>
    /\ LET sources == createImageSources(p.publish_rgb_images, p.publish_depth_images,
                                         p.publish_depth_registered_images, has_arm_)
           request == createImageRequest(sources, p.has_rgb_cameras, p.rgb_image_quality, FALSE)
       IN  /\ image_request_message_' = <<request>>
           /\ initRequest' = <<request>>
           /\ IF request = <<>>
              THEN /\ initResult' = <<FALSE>>
                   /\ UNCHANGED <<publishers, setTimerCalls>>
              ELSE /\ initResult' = <<TRUE>>
                   /\ publishers' = createPublishers(publishers, sources)
                   /\ setTimerCalls' = setTimerCalls + 1
    /\ initCalls' = initCalls + 1
    /\ pc' = "Idle"
    /\ tickBy' = "none"
    /\ ClearRecordings
    /\ prevFailed' = FALSE
    /\ timerDue' = FALSE
    /\ UNCHANGED <<has_arm_, running, paramServer, rb>>

\* Variant: initialize() arms the timer first and stores the request and
\* creates the publishers afterwards, so that a tick can run in between.
Initialize_ArmsTimerFirst(p) ==
    /\ pc # "Fetching"
    /\ tickBy # "timer"
    /\ initCalls < MaxInits
    /\ IF setTimerCalls = initCalls
       THEN /\ setTimerCalls' = setTimerCalls + 1
            /\ params' = <<p>>
            /\ UNCHANGED <<image_request_message_, publishers, initResult, initRequest, initCalls>>
       ELSE /\ p = params[1]
            /\ image_request_message_' = <<RequestFor(p)>>
            /\ publishers' = createPublishers(publishers, RequestedSources(RequestFor(p)))
            /\ initResult' = <<TRUE>>
            /\ initRequest' = <<RequestFor(p)>>
            /\ initCalls' = initCalls + 1
            /\ UNCHANGED <<setTimerCalls, params>>
    /\ pc' = "Idle"
    /\ tickBy' = "none"
    /\ ClearRecordings
    /\ prevFailed' = FALSE
    /\ timerDue' = FALSE
    /\ UNCHANGED <<has_arm_, running, paramServer, rb>>

\* Variant: initialize() asks for raw color images.
Initialize_RawRgb(p) ==
    /\ pc # "Fetching"
    /\ tickBy # "timer"
    /\ initCalls < MaxInits
    /\ params' = <<p>>
    /\ LET sources == createImageSources(p.publish_rgb_images, p.publish_depth_images,
                                         p.publish_depth_registered_images, has_arm_)
           request == createImageRequest(sources, p.has_rgb_cameras, p.rgb_image_quality, TRUE)
       IN  /\ image_request_message_' = <<request>>
           /\ publishers' = createPublishers(publishers, sources)
           /\ setTimerCalls' = setTimerCalls + 1
           /\ initResult' = <<TRUE>>
           /\ initRequest' = <<request>>
    /\ initCalls' = initCalls + 1
    /\ pc' = "Idle"
    /\ tickBy' = "none"
    /\ ClearRecordings
    /\ prevFailed' = FALSE
    /\ timerDue' = FALSE
    /\ UNCHANGED <<has_arm_, running, paramServer, rb>>

\* initialize(), the parameter interface answering with the values p.
\* The owner of the publisher calls it before the executor serves the timer,
\* so not after a timer tick has run.
Initialize(p) ==
    /\ pc # "Fetching"
    /\ tickBy # "timer"
    /\ initCalls < MaxInits
    /\ params' = <<p>>
    /\ LET rgb_image_quality == p.rgb_image_quality
           publish_rgb_images == p.publish_rgb_images
           publish_depth_images == p.publish_depth_images
           publish_depth_registered_images == p.publish_depth_registered_images
           has_rgb_cameras == p.has_rgb_cameras
           sources == createImageSources(publish_rgb_images, publish_depth_images,
                                         publish_depth_registered_images, has_arm_)
           request == createImageRequest(sources, has_rgb_cameras, rgb_image_quality, FALSE)
       IN  /\ image_request_message_' = <<request>>
           /\ publishers' = createPublishers(publishers, sources)
           /\ setTimerCalls' = setTimerCalls + 1
           /\ initResult' = <<TRUE>>
           /\ initRequest' = <<request>>
    /\ initCalls' = initCalls + 1
    /\ pc' = "Idle"
    /\ tickBy' = "none"
    /\ ClearRecordings
    /\ prevFailed' = FALSE
    /\ timerDue' = FALSE
    /\ UNCHANGED <<has_arm_, running, paramServer, rb>>

\* The timer runs its callback when a period has elapsed and no earlier
\* execution of the callback is still in progress.
TimerReady == timerDue /\ pc # "Fetching"

\* Variant: the callback is handed to a timer that runs it at every elapsed
\* period, also while an earlier execution is in progress.
MayRun_Reentrant(by) ==
    IF by = "timer" THEN setTimerCalls > 0 /\ timerDue
    ELSE setTimerCalls = 0 /\ pc # "Fetching"

\* Who may run timerCallback now: the armed timer, or, while no timer is armed,
\* a caller that holds the callback.
MayRun(by) ==
    IF by = "timer" THEN setTimerCalls > 0 /\ TimerReady
    ELSE setTimerCalls = 0 /\ pc # "Fetching"

\* A period of the armed timer elapses.
PeriodElapses ==
    /\ setTimerCalls > 0
    /\ ~timerDue
    /\ timerDue' = TRUE
    /\ UNCHANGED <<params, has_arm_, image_request_message_, publishers, setTimerCalls, pc,
                   tickBy, getImagesCalls, response, logCalls, publishImagesCalls, published,
                   tfCalls, middlewareCalls, initResult, initRequest, initCalls, prevFailed, running, paramServer, rb>>

\* Variant: no check of the optional; an absent request is read as an empty one.
TimerCallback_NoGuard(by) ==
    /\ MayRun(by)
    /\ tickBy' = by
    /\ timerDue' = FALSE
    /\ prevFailed' = (response # <<>> /\ ~response[1].ok)
    /\ logCalls' = <<>>
    /\ getImagesCalls' = <<IF image_request_message_ = <<>> THEN <<>>
                           ELSE image_request_message_[1]>>
    /\ pc' = "Fetching"
    /\ running' = running + 1
    /\ response' = <<>>
    /\ publishImagesCalls' = <<>>
    /\ published' = <<>>
    /\ tfCalls' = <<>>
    /\ middlewareCalls' = <<>>
    /\ UNCHANGED <<params, has_arm_, image_request_message_, publishers, setTimerCalls,
                   initResult, initRequest, initCalls, paramServer, rb>>

\* Variant: each tick reads the parameters and rebuilds the request.
TimerCallback_RebuildsRequest(by) ==
    /\ MayRun(by)
    /\ tickBy' = by
    /\ timerDue' = FALSE
    /\ prevFailed' = (response # <<>> /\ ~response[1].ok)
    /\ IF image_request_message_ = <<>>
       THEN /\ logCalls' = <<"No image request message generated. Returning.">>
            /\ getImagesCalls' = <<>>
            /\ pc' = pc
            /\ running' = running
            /\ UNCHANGED image_request_message_
       ELSE /\ logCalls' = <<>>
            /\ \E p \in ParamValues :
                 /\ image_request_message_' = <<RequestFor(p)>>
                 /\ getImagesCalls' = <<RequestFor(p)>>
            /\ pc' = "Fetching"
            /\ running' = running + 1
    /\ response' = <<>>
    /\ publishImagesCalls' = <<>>
    /\ published' = <<>>
    /\ tfCalls' = <<>>
    /\ middlewareCalls' = <<>>
    /\ UNCHANGED <<params, has_arm_, publishers, setTimerCalls,
                   initResult, initRequest, initCalls, paramServer, rb>>

\* Variant: each tick arms the timer again.
TimerCallback_RearmsTimer(by) ==
    /\ MayRun(by)
    /\ tickBy' = by
    /\ timerDue' = FALSE
    /\ prevFailed' = (response # <<>> /\ ~response[1].ok)
    /\ IF image_request_message_ = <<>>
       THEN /\ logCalls' = <<"No image request message generated. Returning.">>
            /\ getImagesCalls' = <<>>
            /\ pc' = pc
            /\ running' = running
            /\ UNCHANGED setTimerCalls
       ELSE /\ logCalls' = <<>>
            /\ getImagesCalls' = <<image_request_message_[1]>>
            /\ pc' = "Fetching"
            /\ running' = running + 1
            /\ setTimerCalls' = setTimerCalls + 1
    /\ response' = <<>>
    /\ publishImagesCalls' = <<>>
    /\ published' = <<>>
    /\ tfCalls' = <<>>
    /\ middlewareCalls' = <<>>
    /\ UNCHANGED <<params, has_arm_, image_request_message_, publishers,
                   initResult, initRequest, initCalls, paramServer, rb>>

\* Variant: each tick reads the parameter server and rebuilds the request.
TimerCallback_ReadsParameters(by) ==
    /\ MayRun(by)
    /\ tickBy' = by
    /\ timerDue' = FALSE
    /\ prevFailed' = (response # <<>> /\ ~response[1].ok)
    /\ IF image_request_message_ = <<>>
       THEN /\ logCalls' = <<"No image request message generated. Returning.">>
            /\ getImagesCalls' = <<>>
            /\ pc' = pc
            /\ running' = running
            /\ UNCHANGED image_request_message_
       ELSE /\ logCalls' = <<>>
            /\ image_request_message_' = <<RequestFor(paramServer[1])>>
            /\ getImagesCalls' = <<RequestFor(paramServer[1])>>
            /\ pc' = "Fetching"
            /\ running' = running + 1
    /\ response' = <<>>
    /\ publishImagesCalls' = <<>>
    /\ published' = <<>>
    /\ tfCalls' = <<>>
    /\ middlewareCalls' = <<>>
    /\ UNCHANGED <<params, has_arm_, publishers, setTimerCalls,
                   initResult, initRequest, initCalls, paramServer, rb>>

\* timerCallback up to the point where it blocks in getImages (or returns early).
TimerCallback(by) ==
    /\ MayRun(by)
    /\ tickBy' = by
    /\ timerDue' = FALSE
    /\ prevFailed' = (response # <<>> /\ ~response[1].ok)
    /\ IF image_request_message_ = <<>>
       THEN /\ logCalls' = <<"No image request message generated. Returning.">>
            /\ getImagesCalls' = <<>>
            /\ pc' = pc
            /\ running' = running
       ELSE /\ logCalls' = <<>>
            /\ getImagesCalls' = <<image_request_message_[1]>>
            /\ pc' = "Fetching"
            /\ running' = running + 1
    /\ response' = <<>>
    /\ publishImagesCalls' = <<>>
    /\ published' = <<>>
    /\ tfCalls' = <<>>
    /\ middlewareCalls' = <<>>
    /\ UNCHANGED <<params, has_arm_, image_request_message_, publishers, setTimerCalls,
                   initResult, initRequest, initCalls, paramServer, rb>>

\* Variant: the error branch does not return.
GetImagesReturn_NoReturnOnError(image_result) ==
    /\ pc = "Fetching"
    /\ response' = <<image_result>>
    /\ IF ~image_result.ok
       THEN logCalls' = Append(logCalls, "Failed to get images: " \o image_result.error)
       ELSE UNCHANGED logCalls
    /\ publishImagesCalls' = Append(publishImagesCalls, image_result.images)
    /\ published' = published \o publishImages(image_result.images)
    /\ tfCalls' = Append(tfCalls, image_result.transforms)
    /\ middlewareCalls' = middlewareCalls \o <<"publishImages", "updateStaticTransforms">>
    /\ pc' = IF running > 1 THEN "Fetching" ELSE "Idle"
    /\ running' = running - 1
    /\ UNCHANGED <<params, has_arm_, image_request_message_, publishers, setTimerCalls,
                   tickBy, getImagesCalls, initResult, initRequest, initCalls, prevFailed,
                   timerDue, paramServer, rb>>

\* Variant: one updateStaticTransforms call per transform.
GetImagesReturn_BroadcastEach(image_result) ==
    /\ pc = "Fetching"
    /\ response' = <<image_result>>
    /\ IF ~image_result.ok
       THEN /\ logCalls' = Append(logCalls, "Failed to get images: " \o image_result.error)
            /\ UNCHANGED <<publishImagesCalls, published, tfCalls, middlewareCalls>>
       ELSE /\ publishImagesCalls' = Append(publishImagesCalls, image_result.images)
            /\ published' = published \o publishImages(image_result.images)
            /\ tfCalls' = tfCalls \o [i \in 1..Len(image_result.transforms) |->
                                         <<image_result.transforms[i]>>]
            /\ middlewareCalls' = middlewareCalls \o <<"publishImages">>
                                    \o [i \in 1..Len(image_result.transforms) |->
                                           "updateStaticTransforms"]
            /\ UNCHANGED logCalls
    /\ pc' = IF running > 1 THEN "Fetching" ELSE "Idle"
    /\ running' = running - 1
    /\ UNCHANGED <<params, has_arm_, image_request_message_, publishers, setTimerCalls,
                   tickBy, getImagesCalls, initResult, initRequest, initCalls, prevFailed,
                   timerDue, paramServer, rb>>

\* Variant: a result without images is logged as an error.
GetImagesReturn_LogsOnEmpty(image_result) ==
    /\ pc = "Fetching"
    /\ response' = <<image_result>>
    /\ IF ~image_result.ok
       THEN /\ logCalls' = Append(logCalls, "Failed to get images: " \o image_result.error)
            /\ UNCHANGED <<publishImagesCalls, published, tfCalls, middlewareCalls>>
       ELSE /\ publishImagesCalls' = Append(publishImagesCalls, image_result.images)
            /\ published' = published \o publishImages(image_result.images)
            /\ tfCalls' = Append(tfCalls, image_result.transforms)
            /\ middlewareCalls' = middlewareCalls \o <<"publishImages", "updateStaticTransforms">>
            /\ logCalls' = IF DOMAIN image_result.images = {}
                           THEN Append(logCalls, "No images received.")
                           ELSE logCalls
    /\ pc' = IF running > 1 THEN "Fetching" ELSE "Idle"
    /\ running' = running - 1
    /\ UNCHANGED <<params, has_arm_, image_request_message_, publishers, setTimerCalls,
                   tickBy, getImagesCalls, initResult, initRequest, initCalls, prevFailed,
                   timerDue, paramServer, rb>>

\* Variant: a failed fetch drops the stored request.
GetImagesReturn_ResetsOnError(image_result) ==
    /\ pc = "Fetching"
    /\ response' = <<image_result>>
    /\ IF ~image_result.ok
       THEN /\ logCalls' = Append(logCalls, "Failed to get images: " \o image_result.error)
            /\ image_request_message_' = <<>>
            /\ UNCHANGED <<publishImagesCalls, published, tfCalls, middlewareCalls>>
       ELSE /\ publishImagesCalls' = Append(publishImagesCalls, image_result.images)
            /\ published' = published \o publishImages(image_result.images)
            /\ tfCalls' = Append(tfCalls, image_result.transforms)
            /\ middlewareCalls' = middlewareCalls \o <<"publishImages", "updateStaticTransforms">>
            /\ UNCHANGED <<logCalls, image_request_message_>>
    /\ pc' = IF running > 1 THEN "Fetching" ELSE "Idle"
    /\ running' = running - 1
    /\ UNCHANGED <<params, has_arm_, publishers, setTimerCalls,
                   tickBy, getImagesCalls, initResult, initRequest, initCalls, prevFailed,
                   timerDue, paramServer, rb>>

\* Variant: a failed fetch is tried once more within the same tick.
GetImagesReturn_RetriesOnError(image_result) ==
    /\ pc = "Fetching"
    /\ response' = <<image_result>>
    /\ IF ~image_result.ok
       THEN /\ logCalls' = Append(logCalls, "Failed to get images: " \o image_result.error)
            /\ UNCHANGED <<publishImagesCalls, published, tfCalls, middlewareCalls>>
       ELSE /\ publishImagesCalls' = Append(publishImagesCalls, image_result.images)
            /\ published' = published \o publishImages(image_result.images)
            /\ tfCalls' = Append(tfCalls, image_result.transforms)
            /\ middlewareCalls' = middlewareCalls \o <<"publishImages", "updateStaticTransforms">>
            /\ UNCHANGED logCalls
    /\ IF ~image_result.ok /\ Len(getImagesCalls) < 2
       THEN /\ getImagesCalls' = Append(getImagesCalls, image_request_message_[1])
            /\ pc' = "Fetching"
            /\ running' = running
       ELSE /\ getImagesCalls' = getImagesCalls
            /\ pc' = IF running > 1 THEN "Fetching" ELSE "Idle"
            /\ running' = running - 1
    /\ UNCHANGED <<params, has_arm_, image_request_message_, publishers, setTimerCalls,
                   tickBy, initResult, initRequest, initCalls, prevFailed,
                   timerDue, paramServer, rb>>

\* Variant: a failed fetch stops the pipeline.
GetImagesReturn_StopsOnError(image_result) ==
    /\ pc = "Fetching"
    /\ response' = <<image_result>>
    /\ IF ~image_result.ok
       THEN /\ logCalls' = Append(logCalls, "Failed to get images: " \o image_result.error)
            /\ pc' = "Failed"
            /\ UNCHANGED <<publishImagesCalls, published, tfCalls, middlewareCalls>>
       ELSE /\ publishImagesCalls' = Append(publishImagesCalls, image_result.images)
            /\ published' = published \o publishImages(image_result.images)
            /\ tfCalls' = Append(tfCalls, image_result.transforms)
            /\ middlewareCalls' = middlewareCalls \o <<"publishImages", "updateStaticTransforms">>
            /\ pc' = IF running > 1 THEN "Fetching" ELSE "Idle"
            /\ UNCHANGED logCalls
    /\ running' = running - 1
    /\ UNCHANGED <<params, has_arm_, image_request_message_, publishers, setTimerCalls,
                   tickBy, getImagesCalls, initResult, initRequest, initCalls, prevFailed,
                   timerDue, paramServer, rb>>

\* Variant: the transforms are broadcast before the images are published.
GetImagesReturn_BroadcastsFirst(image_result) ==
    /\ pc = "Fetching"
    /\ response' = <<image_result>>
    /\ IF ~image_result.ok
       THEN /\ logCalls' = Append(logCalls, "Failed to get images: " \o image_result.error)
            /\ UNCHANGED <<publishImagesCalls, published, tfCalls, middlewareCalls>>
       ELSE /\ tfCalls' = Append(tfCalls, image_result.transforms)
            /\ publishImagesCalls' = Append(publishImagesCalls, image_result.images)
            /\ published' = published \o publishImages(image_result.images)
            /\ middlewareCalls' = middlewareCalls \o <<"updateStaticTransforms", "publishImages">>
            /\ UNCHANGED logCalls
    /\ pc' = IF running > 1 THEN "Fetching" ELSE "Idle"
    /\ running' = running - 1
    /\ UNCHANGED <<params, has_arm_, image_request_message_, publishers, setTimerCalls,
                   tickBy, getImagesCalls, initResult, initRequest, initCalls, prevFailed,
                   timerDue, paramServer, rb>>

\* timerCallback from the return of getImages to its end.
GetImagesReturn(image_result) ==
    /\ pc = "Fetching"
    /\ response' = <<image_result>>
    /\ IF ~image_result.ok
       THEN /\ logCalls' = Append(logCalls, "Failed to get images: " \o image_result.error)
            /\ UNCHANGED <<publishImagesCalls, published, tfCalls, middlewareCalls>>
       ELSE /\ publishImagesCalls' = Append(publishImagesCalls, image_result.images)
            /\ published' = published \o publishImages(image_result.images)
            /\ tfCalls' = Append(tfCalls, image_result.transforms)
            /\ middlewareCalls' = middlewareCalls \o <<"publishImages", "updateStaticTransforms">>
            /\ UNCHANGED logCalls
    /\ pc' = IF running > 1 THEN "Fetching" ELSE "Idle"
    /\ running' = running - 1
    /\ UNCHANGED <<params, has_arm_, image_request_message_, publishers, setTimerCalls,
                   tickBy, getImagesCalls, initResult, initRequest, initCalls, prevFailed,
                   timerDue, paramServer, rb>>

Next ==
    \/ \E p \in ParamValues : Initialize(p)
    \/ PeriodElapses
    \/ \E by \in {"timer", "direct"} : TimerCallback(by)
    \/ /\ pc = "Fetching"
       /\ \E image_result \in ImageClientResults(getImagesCalls[1]) : GetImagesReturn(image_result)

Spec == Init /\ [][Next]_vars

-----------------------------------------------------------------------------
(* The pipeline next to a parameter server whose values change at any time;
   initialize() is called once and the Image Client answers every sub-request
   or fails *)

\* The user sets one parameter to another value.
SetParameter(name) ==
    /\ paramServer # <<>>
    /\ IF name = "rgb_image_quality"
       THEN \E quality \in Qualities \ {paramServer[1][name]} :
               paramServer' = <<[paramServer[1] EXCEPT ![name] = quality]>>
       ELSE paramServer' = <<[paramServer[1] EXCEPT ![name] = ~paramServer[1][name]]>>
    /\ UNCHANGED <<params, has_arm_, image_request_message_, publishers, setTimerCalls, pc,
                   tickBy, getImagesCalls, response, logCalls, publishImagesCalls, published,
                   tfCalls, middlewareCalls, initResult, initRequest, initCalls, prevFailed, timerDue, running, rb>>

\* Results of getImages that are an error or hold an image for every sub-request.
CompleteResults(request) ==
    LET images == [s \in RequestedSources(request) |-> [source |-> s, data |-> "pixels"]]
    IN  {[ok |-> FALSE, images |-> <<>>, transforms |-> <<>>, error |-> e] : e \in ErrorDetails}
        \cup
        {[ok |-> TRUE, images |-> images, transforms |-> T, error |-> ""] : T \in TransformSeqs}

ParamInit ==
    /\ params = <<>>
    /\ paramServer \in {<<p>> : p \in ParamValues}
    /\ has_arm_ \in BOOLEAN
    /\ image_request_message_ = <<>>
    /\ publishers = {}
    /\ setTimerCalls = 0
    /\ pc = "Uninitialized"
    /\ tickBy = "none"
    /\ getImagesCalls = <<>>
    /\ response = <<>>
    /\ logCalls = <<>>
    /\ publishImagesCalls = <<>>
    /\ published = <<>>
    /\ tfCalls = <<>>
    /\ middlewareCalls = <<>>
    /\ initResult = <<>>
    /\ initRequest = <<>>
    /\ initCalls = 0
    /\ prevFailed = FALSE
    /\ timerDue = FALSE
    /\ running = 0
    /\ rb = NoRb

ParamNext ==
    \/ initCalls = 0 /\ Initialize(paramServer[1])
    \/ \E name \in ParamNames : SetParameter(name)
    \/ PeriodElapses
    \/ \E by \in {"timer", "direct"} : TimerCallback(by)
    \/ /\ pc = "Fetching"
       /\ \E image_result \in CompleteResults(getImagesCalls[1]) : GetImagesReturn(image_result)

ParamSpec == ParamInit /\ [][ParamNext]_vars

-----------------------------------------------------------------------------
(* The pipeline with an Image Client whose every call returns, with an error
   or with an image for every sub-request *)

\* A pending getImages call returns.
ClientReturns ==
    /\ pc = "Fetching"
    /\ \E image_result \in CompleteResults(getImagesCalls[1]) : GetImagesReturn(image_result)

FairNext ==
    \/ \E p \in ParamValues : Initialize(p)
    \/ PeriodElapses
    \/ \E by \in {"timer", "direct"} : TimerCallback(by)
    \/ ClientReturns

FairSpec == Init /\ [][FairNext]_vars /\ WF_vars(ClientReturns)

-----------------------------------------------------------------------------
(* The request builder on its own: one call on arbitrary inputs *)

BuilderInit ==
    /\ params = <<>>
    /\ paramServer = <<>>
    /\ has_arm_ = FALSE
    /\ image_request_message_ = <<>>
    /\ publishers = {}
    /\ setTimerCalls = 0
    /\ pc = "Uninitialized"
    /\ tickBy = "none"
    /\ getImagesCalls = <<>>
    /\ response = <<>>
    /\ logCalls = <<>>
    /\ publishImagesCalls = <<>>
    /\ published = <<>>
    /\ tfCalls = <<>>
    /\ middlewareCalls = <<>>
    /\ initResult = <<>>
    /\ initRequest = <<>>
    /\ initCalls = 0
    /\ prevFailed = FALSE
    /\ timerDue = FALSE
    /\ running = 0
    /\ rb \in [sources            : SUBSET ImageSource,
               has_rgb_cameras    : BOOLEAN,
               rgb_image_quality  : Qualities,
               get_raw_rgb_images : BOOLEAN,
               request            : {<<>>}]

BuildRequest ==
    /\ rb.request = <<>>
    /\ rb' = [rb EXCEPT !.request =
                 <<createImageRequest(rb.sources, rb.has_rgb_cameras,
                                      rb.rgb_image_quality, rb.get_raw_rgb_images)>>]
    /\ UNCHANGED pipeVars

BuilderNext == BuildRequest

BuilderSpec == BuilderInit /\ [][BuilderNext]_vars

-----------------------------------------------------------------------------
(* Properties of the request builder, checked under BuilderSpec *)

\* Sub-requests of a request that carry the wire name of a source.
SubRequestsOf(request, source) ==
    {i \in 1..Len(request) : request[i].image_source_name = toSpotImageSourceName(source)}

DepthSources(S) == {s \in S : s.type \in {"DEPTH", "DEPTH_REGISTERED"}}

\* Sub-requests of the depth sources of S in a request, by source.
DepthPart(request, S) ==
    [s \in DepthSources(S) |-> {request[i] : i \in SubRequestsOf(request, s)}]

\* C7: every DEPTH and DEPTH_REGISTERED sub-request of the built request is raw
\* with quality 100, and the depth sub-requests are the same whatever rgbQuality
\* and rawRgb are.
C7_DepthAlwaysRawMaxQuality ==
    rb.request # <<>> =>
        /\ \A s \in DepthSources(rb.sources) :
             \A i \in SubRequestsOf(rb.request[1], s) :
                /\ rb.request[1][i].image_format = "FORMAT_RAW"
                /\ rb.request[1][i].quality_percent = 100
        /\ \A q \in Qualities, raw \in BOOLEAN :
             DepthPart(createImageRequest(rb.sources, rb.has_rgb_cameras, q, raw), rb.sources)
               = DepthPart(rb.request[1], rb.sources)

\* A request was built for both depth modalities and a color source, with a
\* quality other than 100 and raw color requested.
C7_Witness ==
    /\ rb.request # <<>>
    /\ rb.rgb_image_quality # 100
    /\ rb.get_raw_rgb_images
    /\ \E a, b, c \in rb.sources :
          /\ a.type = "DEPTH" /\ b.type = "DEPTH_REGISTERED" /\ c.type = "RGB"
          /\ SubRequestsOf(rb.request[1], a) # {}
          /\ SubRequestsOf(rb.request[1], b) # {}

\* C8: every COLOR sub-request of the built request has quality rgbQuality and is
\* raw when rawRgb is true and JPEG when it is false.
C8_ColorQualityAndEncoding ==
    rb.request # <<>> =>
        \A s \in rb.sources :
            s.type = "RGB" =>
                \A i \in SubRequestsOf(rb.request[1], s) :
                    /\ rb.request[1][i].quality_percent = rb.rgb_image_quality
                    /\ rb.request[1][i].image_format =
                          (IF rb.get_raw_rgb_images THEN "FORMAT_RAW" ELSE "FORMAT_JPEG")

\* A request with a color sub-request was built with raw color and quality 70.
C8_Witness ==
    /\ rb.request # <<>>
    /\ rb.get_raw_rgb_images
    /\ rb.rgb_image_quality = 70
    /\ \E s \in rb.sources : s.type = "RGB" /\ SubRequestsOf(rb.request[1], s) # {}

\* C9: the built request has exactly one sub-request per source of the set, named
\* by the wire name of that source, and no other; the body color source alone
\* with rgbQuality 100 and rawRgb false gives one compressed sub-request of quality 100.
C9_OneSubRequestPerSource ==
    rb.request # <<>> =>
        /\ Len(rb.request[1]) = Cardinality(rb.sources)
        /\ \A s \in rb.sources : Cardinality(SubRequestsOf(rb.request[1], s)) = 1
        /\ \A i \in 1..Len(rb.request[1]) :
             \E s \in rb.sources : i \in SubRequestsOf(rb.request[1], s)
        /\ ( /\ rb.sources = {[camera |-> "BACK", type |-> "RGB"]}
             /\ rb.rgb_image_quality = 100
             /\ ~rb.get_raw_rgb_images )
           => rb.request[1] = << [image_source_name |-> "back_fisheye_image",
                                  quality_percent   |-> 100,
                                  pixel_format      |-> "PIXEL_FORMAT_RGB_U8",
                                  image_format      |-> "FORMAT_JPEG"] >>

\* A request was built for a set with a source of each modality.
C9_Witness ==
    /\ rb.request # <<>>
    /\ Len(rb.request[1]) >= 3
    /\ \A t \in SpotImageType : \E s \in rb.sources : s.type = t

-----------------------------------------------------------------------------
(* Properties of the publish pipeline, checked under Spec *)

TickRan == tickBy # "none"

FetchFailed == response # <<>> /\ ~response[1].ok

FetchSucceeded == response # <<>> /\ response[1].ok

\* C1: a tick in which getImages returned an error made exactly one logError
\* call, carrying the client's error detail, published no image, broadcast no
\* transform, and left the pipeline idle with its request and timer in place.
C1_FetchErrorLogsAndSkips ==
    FetchFailed =>
        /\ logCalls = <<"Failed to get images: " \o response[1].error>>
        /\ publishImagesCalls = <<>>
        /\ published = <<>>
        /\ tfCalls = <<>>
        /\ pc = "Idle"
        /\ image_request_message_ # <<>>
        /\ setTimerCalls > 0

\* A timer tick ended with the client's error "timeout".
C1_Witness ==
    /\ FetchFailed
    /\ tickBy = "timer"
    /\ response[1].error = "timeout"
    /\ logCalls = <<"Failed to get images: timeout">>

\* C2: a tick run while no request exists logs one error and calls neither
\* getImages nor publishImages nor updateStaticTransforms.
C2_TickWithoutRequest ==
    (TickRan /\ image_request_message_ = <<>>) =>
        /\ logCalls = <<"No image request message generated. Returning.">>
        /\ getImagesCalls = <<>>
        /\ response = <<>>
        /\ publishImagesCalls = <<>>
        /\ published = <<>>
        /\ tfCalls = <<>>
        /\ pc = "Uninitialized"

\* A tick was run before any initialize().
C2_Witness ==
    /\ TickRan
    /\ initCalls = 0
    /\ image_request_message_ = <<>>
    /\ Len(logCalls) = 1

\* C3: a tick in which getImages returned images for the sources S and the
\* transform sequence T published exactly one image per source of S, each on the
\* channel of its own source, and made exactly one broadcast call, carrying T.
C3_SuccessPublishesEachAndBroadcastsOnce ==
    FetchSucceeded =>
        LET images == response[1].images
            S == DOMAIN images
        IN  /\ publishImagesCalls = <<images>>
            /\ Len(published) = Cardinality(S)
            /\ \A s \in S :
                 /\ Cardinality({i \in 1..Len(published) : published[i].channel = s}) = 1
                 /\ \A i \in 1..Len(published) :
                      published[i].channel = s => published[i].image = images[s]
            /\ \A i \in 1..Len(published) :
                 /\ published[i].channel \in S
                 /\ published[i].image.source = published[i].channel
            /\ tfCalls = <<response[1].transforms>>
            /\ logCalls = <<>>

\* A tick got images for two of at least three requested sources and the
\* transform updates 2, 1 in that order.
C3_Witness ==
    /\ FetchSucceeded
    /\ Cardinality(DOMAIN response[1].images) = 2
    /\ Len(getImagesCalls[1]) >= 3
    /\ response[1].transforms = <<2, 1>>
    /\ Len(published) = 2

\* C4: once initialize() has run, the stored request is the one that call built,
\* and every request handed to getImages by a tick is that request.
C4_RequestUnchangedAndReused ==
    /\ image_request_message_ = initRequest
    /\ \A i \in 1..Len(getImagesCalls) :
         /\ initRequest # <<>>
         /\ getImagesCalls[i] = initRequest[1]

\* A tick fetched right after a failed tick, after the last initialize().
C4_Witness ==
    /\ initRequest # <<>>
    /\ getImagesCalls # <<>>
    /\ prevFailed
    /\ initCalls = MaxInits

\* C5 as stated: an initialize() whose built request is empty reports failure and
\* arms no timer.
C5_Original ==
    (initResult # <<>> /\ initRequest = << <<>> >>) =>
        /\ initResult = <<FALSE>>
        /\ setTimerCalls = 0

\* C5 amended: initialize() has no failure path; every call returns true, stores
\* a request and arms the timer, also when the built request is empty; no timer
\* is armed and no timer tick runs before initialize() has run.
C5_InitializeAlwaysSucceeds ==
    /\ initCalls > 0 =>
         /\ initResult = <<TRUE>>
         /\ image_request_message_ # <<>>
         /\ setTimerCalls = initCalls
    /\ initCalls = 0 =>
         /\ initResult = <<>>
         /\ setTimerCalls = 0
    /\ tickBy = "timer" => initResult = <<TRUE>>

\* initialize() built an empty request and a timer tick followed.
C5_Witness ==
    /\ initResult = <<TRUE>>
    /\ initRequest = << <<>> >>
    /\ setTimerCalls > 0
    /\ tickBy = "timer"

\* Request construction on the empty source set yields the empty request.
EmptySetGivesEmptyRequest ==
    \A p \in ParamValues :
        createImageRequest({}, p.has_rgb_cameras, p.rgb_image_quality, FALSE) = <<>>

\* C6 as stated: after an initialize() that built an empty request, no tick
\* publishes and no tick logs an error.
C6_Original ==
    (initRequest = << <<>> >> /\ TickRan) =>
        /\ published = <<>>
        /\ logCalls = <<>>

\* C6 amended: an empty source set gives a request without sub-requests and
\* initialize() succeeds with it; every later tick fetches with that request and
\* publishes nothing, and logs an error only when getImages itself fails.
C6_EmptyRequestTicks ==
    /\ EmptySetGivesEmptyRequest
    /\ (initRequest = << <<>> >> /\ TickRan) =>
         /\ initResult = <<TRUE>>
         /\ getImagesCalls = << <<>> >>
         /\ published = <<>>
         /\ FetchSucceeded =>
              /\ logCalls = <<>>
              /\ publishImagesCalls = << <<>> >>
         /\ FetchFailed => Len(logCalls) = 1
         /\ response = <<>> => logCalls = <<>>

\* A tick on an empty request got a successful result with a transform.
C6_Witness ==
    /\ initRequest = << <<>> >>
    /\ TickRan
    /\ FetchSucceeded
    /\ response[1].transforms # <<>>

\* C10: after any number of consecutive failed ticks the stored request is still
\* the one initialize() built and the pipeline is idle; the tick that follows
\* fetches with that request and, on success, publishes and broadcasts what its
\* own result holds, as a tick that follows no failure does.
C10_FailuresLeaveNoTrace ==
    /\ FetchFailed =>
         /\ image_request_message_ = initRequest
         /\ initRequest # <<>>
         /\ pc = "Idle"
    /\ (TickRan /\ prevFailed) =>
         /\ image_request_message_ = initRequest
         /\ getImagesCalls = <<initRequest[1]>>
         /\ pc = "Fetching" => (response = <<>> /\ logCalls = <<>>)
         /\ FetchFailed => logCalls = <<"Failed to get images: " \o response[1].error>>
         /\ FetchSucceeded =>
              /\ published = publishImages(response[1].images)
              /\ tfCalls = <<response[1].transforms>>
              /\ logCalls = <<>>

\* A tick succeeded and published right after a failed tick.
C10_Witness ==
    /\ FetchSucceeded
    /\ prevFailed
    /\ published # <<>>
    /\ response[1].transforms # <<>>

-----------------------------------------------------------------------------
(* Scheduling, lifetime and configuration properties, checked under Spec *)

InitSources ==
    createImageSources(params[1].publish_rgb_images, params[1].publish_depth_images,
                       params[1].publish_depth_registered_images, has_arm_)

\* C12 as stated: once a request is stored it is never built again and no further
\* timer is armed, whatever initialize() calls and ticks follow.
C12_Original ==
    [][image_request_message_ # <<>> =>
          (image_request_message_' = image_request_message_ /\ setTimerCalls' = setTimerCalls)]_vars

\* C12 amended: every initialize() call builds the source set and the request,
\* creates the publishers of those sources and arms the timer, once each; no
\* tick builds a request, creates a publisher or arms a timer; so after a single
\* initialize() call each exists exactly once, and a repeated call builds the
\* request and arms the timer again.
C12_OncePerInitialize ==
    /\ [](setTimerCalls = initCalls /\ (initCalls = 1 => setTimerCalls = 1))
    /\ [][/\ initCalls' = initCalls =>
               /\ image_request_message_' = image_request_message_
               /\ publishers' = publishers
               /\ setTimerCalls' = setTimerCalls
          /\ initCalls' # initCalls =>
               /\ initCalls' = initCalls + 1
               /\ setTimerCalls' = setTimerCalls + 1
               /\ image_request_message_' = <<createImageRequest(InitSources', params'[1].has_rgb_cameras,
                                                                 params'[1].rgb_image_quality, FALSE)>>
               /\ publishers' = publishers \cup InitSources']_vars

\* After a second initialize() that built another request than the first, a
\* timer tick fetched and returned.
C12_Witness ==
    /\ initCalls = 2
    /\ setTimerCalls = 2
    /\ tickBy = "timer"
    /\ response # <<>>
    /\ publishers # RequestedSources(initRequest[1])

\* C13 (under ParamSpec): a tick reads no parameter: whatever the parameter
\* server holds when a tick runs, the tick fetches with the request built from
\* the values initialize() read and publishes the images of its own result.
C13_TicksIgnoreParameterChanges ==
    (TickRan /\ initCalls > 0) =>
        /\ image_request_message_ = <<RequestFor(params[1])>>
        /\ getImagesCalls = <<RequestFor(params[1])>>
        /\ FetchSucceeded =>
             /\ DOMAIN response[1].images = RequestedSources(RequestFor(params[1]))
             /\ published = publishImages(response[1].images)

\* A tick fetched and published while the parameter server held values that
\* give another request than the one initialize() built.
C13_Witness ==
    /\ initCalls > 0
    /\ TickRan
    /\ FetchSucceeded
    /\ published # <<>>
    /\ paramServer[1] # params[1]
    /\ RequestFor(paramServer[1]) # initRequest[1]

\* C15: a tick calls getImages once when a request is stored and not at all
\* otherwise; the step in which a fetch returns, failed or not, makes no
\* further call and ends the tick, so another call is made only by the step
\* that starts a tick.
C15_OneFetchPerTick ==
    /\ [](TickRan => Len(getImagesCalls) = IF image_request_message_ = <<>> THEN 0 ELSE 1)
    /\ [][(pc = "Fetching" /\ response' # response) =>
             (getImagesCalls' = getImagesCalls /\ pc' = "Idle")]_vars
    /\ [][(getImagesCalls' # getImagesCalls /\ getImagesCalls' # <<>>) =>
             (pc # "Fetching" /\ running' = running + 1 /\ tickBy' # "none")]_vars

\* A failed tick made its one call and ended; the tick before it had failed too.
C15_Witness ==
    /\ pc = "Idle"
    /\ FetchFailed
    /\ prevFailed
    /\ Len(getImagesCalls) = 1
    /\ Len(logCalls) = 1

\* A tick can start, or the timer period can elapse so that one becomes due.
TickCanStart == ENABLED (PeriodElapses \/ \E by \in {"timer", "direct"} : TimerCallback(by))

\* C16 (under FairSpec): the pipeline is only ever Uninitialized, Idle or
\* Fetching; when every getImages call returns, a pipeline that is Fetching
\* becomes Idle again; and whenever it is not Fetching, a further tick can be
\* processed, whatever the earlier ticks did.
C16_FetchingReturnsToIdle ==
    /\ [](pc \in {"Uninitialized", "Idle", "Fetching"})
    /\ (pc = "Fetching") ~> (pc = "Idle")
    /\ [](pc # "Fetching" => TickCanStart)

\* A timer tick went through Fetching and is Idle again after a failed tick,
\* with the next tick already due.
C16_Witness ==
    /\ pc = "Idle"
    /\ tickBy = "timer"
    /\ response # <<>>
    /\ prevFailed
    /\ timerDue

\* C17: whenever a timer is armed the request is stored and a publisher exists
\* for every source the request names; so a tick fired by the timer finds the
\* request, never logs the missing-request error, and every image it publishes
\* goes to a channel that exists.
C17_TimerTicksFindRequestAndChannels ==
    /\ setTimerCalls > 0 =>
         /\ image_request_message_ # <<>>
         /\ RequestedSources(image_request_message_[1]) \subseteq publishers
    /\ tickBy = "timer" =>
         /\ image_request_message_ # <<>>
         /\ getImagesCalls = image_request_message_
         /\ \A i \in 1..Len(logCalls) : logCalls[i] # "No image request message generated. Returning."
         /\ \A i \in 1..Len(published) : published[i].channel \in publishers

\* A tick fired by the timer fetched with the stored request and published on
\* several channels created by the one initialize() call.
C17_Witness ==
    /\ initCalls = 1
    /\ tickBy = "timer"
    /\ FetchSucceeded
    /\ Len(published) > 1
    /\ publishers = RequestedSources(image_request_message_[1])

\* C18: a tick whose fetch succeeded called publishImages and then
\* updateStaticTransforms, once each, with the images and the transforms of
\* that tick's own result, and what went out on the channels are those images;
\* a tick that has no successful result, whatever earlier ticks fetched, has
\* published and broadcast nothing.
C18_PublishThenBroadcastOwnResult ==
    /\ FetchSucceeded =>
         /\ middlewareCalls = <<"publishImages", "updateStaticTransforms">>
         /\ publishImagesCalls = <<response[1].images>>
         /\ published = publishImages(response[1].images)
         /\ tfCalls = <<response[1].transforms>>
    /\ ~FetchSucceeded =>
         /\ middlewareCalls = <<>>
         /\ publishImagesCalls = <<>>
         /\ published = <<>>
         /\ tfCalls = <<>>

\* A tick published several images and then broadcast a full transform batch
\* while the next tick was already due.
C18_Witness ==
    /\ FetchSucceeded
    /\ middlewareCalls = <<"publishImages", "updateStaticTransforms">>
    /\ Len(published) > 1
    /\ Len(tfCalls[1]) = MaxTransforms
    /\ timerDue

\* C19: in the stored request, and in the request a tick hands to getImages,
\* every color source selected by the configuration has a sub-request that is
\* JPEG with the configured rgb_image_quality, and every raw sub-request
\* belongs to a depth source: no configuration requests raw color images.
C19_ColorAlwaysCompressed ==
    image_request_message_ # <<>> =>
        LET request == image_request_message_[1]
            sources == InitSources
            depth   == {toSpotImageSourceName(s) : s \in DepthSources(sources)}
        IN  /\ \A s \in sources :
                  s.type = "RGB" =>
                     /\ SubRequestsOf(request, s) # {}
                     /\ \A i \in SubRequestsOf(request, s) :
                           /\ request[i].image_format = "FORMAT_JPEG"
                           /\ request[i].quality_percent = params[1].rgb_image_quality
            /\ \A i \in 1..Len(request) :
                  request[i].image_format = "FORMAT_RAW" => request[i].image_source_name \in depth
            /\ getImagesCalls # <<>> => getImagesCalls = image_request_message_

\* A pipeline configured with color images at quality 70 next to depth images
\* fetched with its stored request.
C19_Witness ==
    /\ image_request_message_ # <<>>
    /\ params[1].publish_rgb_images
    /\ params[1].publish_depth_images
    /\ params[1].rgb_image_quality = 70
    /\ tickBy = "timer"
    /\ getImagesCalls = image_request_message_

\* The parameter values initialize() read, with has_rgb_cameras the other way round.
OtherHasRgbCameras == [params[1] EXCEPT !.has_rgb_cameras = ~params[1].has_rgb_cameras]

\* C20: the stored request is the one initialize() would have built had
\* has_rgb_cameras been the other value, the publishers a single initialize()
\* created are the sources of that request, and a tick fetches with that
\* request and publishes on those channels.
C20_HasRgbCamerasIgnored ==
    image_request_message_ # <<>> =>
        LET other == RequestFor(OtherHasRgbCameras)
            channels == RequestedSources(other)
        IN  /\ image_request_message_ = <<other>>
            /\ initCalls = 1 => publishers = channels
            /\ getImagesCalls # <<>> => getImagesCalls = <<other>>
            /\ \A i \in 1..Len(published) : published[i].channel \in channels

\* A pipeline told that the robot has no RGB cameras still requested and
\* published a color image.
C20_Witness ==
    /\ image_request_message_ # <<>>
    /\ ~params[1].has_rgb_cameras
    /\ params[1].publish_rgb_images
    /\ FetchSucceeded
    /\ \E i \in 1..Len(published) : published[i].channel.type = "RGB"

====
